---- MODULE Spec2Model ----
(***************************************************************************)
(* Calendar slot scheduler of src/main.py: the half-hour rounder, the      *)
(* interval subtractor, the free-slot generator and the greedy placement   *)
(* of AI sub-tasks into the free slots.                                    *)
(*                                                                         *)
(* Time is an integer number of seconds counted from midnight of the day   *)
(* of "now" (day 0).  An interval is a pair <<start, end>>.  Sub-second    *)
(* precision is not represented: every input is a whole number of seconds, *)
(* so "second == 0 and microsecond == 0" of the source reads Second = 0.   *)
(* The clock is frozen: every datetime.now() of one run returns now.       *)
(***************************************************************************)
EXTENDS Integers, Sequences, FiniteSets, TLC

VARIABLES
    pc,           \* position in _schedule_ai_subtasks
    now,          \* datetime.now(tzinfo)
    rows,         \* the student's rows of the events table (start_at, end_at)
    subtasks,     \* the work-item requests, in the caller's order
    due_deadline, \* _parse_due_datetime(due_date_str): Some(time) or None
    free_slots,   \* result of _generate_free_slots
    slot_queue,   \* the mutable queue of free segments
    scheduled,    \* output: records [sub, start, end]
    unscheduled,  \* output: the requests that found no slot, each the
                  \* position in subtasks of the dict object appended
    idx,          \* number of requests the loop has handled
    placed_in,    \* history: for each scheduled item, the slot it consumed
    rejects,      \* history: candidates rejected so far, by reason
    subtraction,  \* one call of _subtract_interval: [segments, busy, result]
    call          \* one call of a per-request function: [fn, arg, result]

vars == <<pc, now, rows, subtasks, due_deadline, free_slots, slot_queue,
          scheduled, unscheduled, idx, placed_in, rejects, subtraction, call>>

----------------------------------------------------------------------------
(* Bounds of the model *)

MaxBusy == 2
MaxTasks == 3
MaxTime == 4
MaxSegments == 2
MaxRoundHours == 2
MaxEstimate == 420
MaxTargetTasks == 4
MaxSpreadTasks == 20

(* Program constants; durations are written in minutes *)

horizon_days == 21
work_start == 9
work_end == 21
BUFFER_MIN == 30
MIN_SLOT_MIN == 30
DEFAULT_DURATION_MIN == 120
MIN_DURATION_MIN == 30
MAX_DURATION_MIN == 360
SQL_WINDOW_DAYS == 30

(* An optional value is a sequence of length 0 (None) or 1. *)
None == << >>
Some(v) == << v >>

DAY == 24 * 3600
At(d, h, m, s) == d * DAY + h * 3600 + m * 60 + s
Minutes(n) == n * 60

(* datetime accessors *)
DateOf(t) == t \div DAY
MinuteOf(t) == (t % 3600) \div 60
SecondOf(t) == t % 60
ReplaceMinute(t, m) == t - (t % 3600) + m * 60
TruncSecond(t) == t - (t % 60)

Max(a, b) == IF a >= b THEN a ELSE b
Min(a, b) == IF a <= b THEN a ELSE b
Abs(a) == IF a >= 0 THEN a ELSE 0 - a

----------------------------------------------------------------------------
(* Boundary rounder *)

\* The last branch moved to the next hour without zeroing the seconds.
RoundKeepingSeconds(dt) ==
    IF MinuteOf(dt) < 15 /\ SecondOf(dt) = 0
    THEN TruncSecond(dt)
    ELSE IF MinuteOf(dt) < 15
    THEN ReplaceMinute(dt, 30)
    ELSE IF MinuteOf(dt) < 45
    THEN ReplaceMinute(dt, 30)
    ELSE ReplaceMinute(dt, 0) + 3600 + SecondOf(dt)

\* Every timestamp that is not returned unchanged moved to the next hour.
RoundToNextHour(dt) ==
    IF MinuteOf(dt) < 15 /\ SecondOf(dt) = 0
    THEN TruncSecond(dt)
    ELSE ReplaceMinute(dt, 0) + 3600


_round_to_nearest_half_hour(dt) ==
    IF MinuteOf(dt) < 15 /\ SecondOf(dt) = 0
    THEN TruncSecond(dt)
    ELSE IF MinuteOf(dt) < 15
    THEN ReplaceMinute(dt, 30)
    ELSE IF MinuteOf(dt) < 45
    THEN ReplaceMinute(dt, 30)
    ELSE ReplaceMinute(dt, 0) + 3600

----------------------------------------------------------------------------
(* Interval subtractor *)

\* The tail test written as "elif": an interior busy interval loses the tail.
SubtractFromSegmentElif(seg, busy) ==
    IF busy[2] <= seg[1] \/ busy[1] >= seg[2]
    THEN << seg >>
    ELSE IF busy[1] > seg[1] THEN << <<seg[1], busy[1]>> >>
    ELSE IF busy[2] < seg[2] THEN << <<busy[2], seg[2]>> >>
    ELSE << >>

SubtractFromSegment(seg, busy) ==
    IF busy[2] <= seg[1] \/ busy[1] >= seg[2]
    THEN << seg >>
    ELSE (IF busy[1] > seg[1] THEN << <<seg[1], busy[1]>> >> ELSE << >>)
         \o (IF busy[2] < seg[2] THEN << <<busy[2], seg[2]>> >> ELSE << >>)

RECURSIVE SubtractAll(_, _)
SubtractAll(segments, busy) ==
    IF segments = << >> THEN << >>
    ELSE SubtractFromSegment(Head(segments), busy) \o SubtractAll(Tail(segments), busy)

IsProper(seg) == seg[1] < seg[2]

_subtract_interval(segments, busy) ==
    SelectSeq(SubtractAll(segments, busy), IsProper)

----------------------------------------------------------------------------
(* Free-slot generator *)

\* list.sort(key=...): a stable insertion sort of records [key, val], where
\* a key is a tuple of three integers compared lexicographically.
KeyLess(a, b) ==
    \/ a[1] < b[1]
    \/ a[1] = b[1] /\ a[2] < b[2]
    \/ a[1] = b[1] /\ a[2] = b[2] /\ a[3] < b[3]

RECURSIVE InsertKeyed(_, _)
InsertKeyed(sorted, x) ==
    IF sorted = << >> THEN << x >>
    ELSE IF KeyLess(x.key, sorted[Len(sorted)].key)
    THEN Append(InsertKeyed(SubSeq(sorted, 1, Len(sorted) - 1), x), sorted[Len(sorted)])
    ELSE Append(sorted, x)

RECURSIVE SortKeyed(_)
SortKeyed(seq) ==
    IF seq = << >> THEN << >>
    ELSE InsertKeyed(SortKeyed(SubSeq(seq, 1, Len(seq) - 1)), seq[Len(seq)])

\* seq.sort(key=lambda s: s[0]) on a sequence of intervals.
SortByStart(seq) ==
    LET sorted == SortKeyed([i \in 1..Len(seq) |-> [key |-> <<seq[i][1], 0, 0>>,
                                                    val |-> seq[i]]])
    IN  [p \in 1..Len(seq) |-> sorted[p].val]

\* The SQL filter of the query and the "end > now" test on each row.
RowIsBusy(row, t) ==
    /\ row[1] >= t
    /\ row[1] <= t + SQL_WINDOW_DAYS * DAY
    /\ row[2] > t

BusyIntervals(rws, t) ==
    LET keep(row) == RowIsBusy(row, t)
    IN  SortByStart(SelectSeq(rws, keep))

\* The inner loop over busy_intervals for one day, with its early break.
RECURSIVE SubtractDay(_, _, _)
SubtractDay(segments, busy_intervals, day) ==
    IF busy_intervals = << >> THEN segments
    ELSE IF DateOf(Head(busy_intervals)[1]) # day
    THEN SubtractDay(segments, Tail(busy_intervals), day)
    ELSE LET segs == _subtract_interval(segments, Head(busy_intervals))
         IN  IF segs = << >> THEN segs
             ELSE SubtractDay(segs, Tail(busy_intervals), day)

\* The minimum-length filter left out: any non-empty piece is kept.
LongEnoughAny(seg) == seg[2] - seg[1] > 0

LongEnough(seg) == seg[2] - seg[1] >= Minutes(MIN_SLOT_MIN)

\* The day window taken from 09:00 without the clip to now.
DaySlotsUnclipped(busy_intervals, t, day) ==
    LET day_start == At(day, work_start, 0, 0)
        day_end == At(day, work_end, 0, 0)
    IN  IF day_end <= t THEN << >>
        ELSE SelectSeq(SubtractDay(<< <<day_start, day_end>> >>, busy_intervals, day),
                       LongEnough)


DaySlots(busy_intervals, t, day) ==
    LET day_start == At(day, work_start, 0, 0)
        day_end == At(day, work_end, 0, 0)
        clipped == IF day_start < t THEN t ELSE day_start
    IN  IF day_end <= t THEN << >>
        ELSE SelectSeq(SubtractDay(<< <<clipped, day_end>> >>, busy_intervals, day),
                       LongEnough)

RECURSIVE SlotsFromDay(_, _, _, _)
SlotsFromDay(busy_intervals, t, day_offset, horizon) ==
    IF day_offset >= horizon THEN << >>
    ELSE DaySlots(busy_intervals, t, DateOf(t) + day_offset)
         \o SlotsFromDay(busy_intervals, t, day_offset + 1, horizon)

\* The day loop stopping one day early: range(horizon_days - 1).
GenerateOneDayShort(rws, t, horizon) ==
    SlotsFromDay(BusyIntervals(rws, t), t, 0, horizon - 1)


_generate_free_slots(rws, t, horizon) ==
    SlotsFromDay(BusyIntervals(rws, t), t, 0, horizon)

----------------------------------------------------------------------------
(* Placement scheduler: per-request quantities *)

\* Effective duration in seconds.  estimated_hours is <<"num", m>> for a
\* number of m/60 hours, <<"none">> when absent, <<"text">> when unparsable.
\* float(estimated_hours) raises OverflowError for <<"huge">>, an int too
\* large for a float.  The except clause names ValueError and TypeError
\* only, so the exception leaves _schedule_ai_subtasks.
FloatOverflows(subtask) == subtask.estimated_hours[1] = "huge"

\* The duration when float() does not overflow: <<"num", m>> is the finite
\* number m/60, <<"none">> is absent, <<"text">> makes float() raise
\* ValueError or TypeError (caught, 2.0), <<"inf">> is float infinity, which
\* min() cuts to 6.0, and <<"nan">> is float nan, which min(nan, 6.0)
\* returns and max(0.5, nan) replaces by 0.5.
DurationOf(subtask) ==
    LET e == subtask.estimated_hours
        duration_min == CASE e[1] = "num" -> e[2]
                          [] e[1] = "inf" -> MAX_DURATION_MIN
                          [] e[1] = "nan" -> MIN_DURATION_MIN
                          [] e[1] \in {"none", "text"} -> DEFAULT_DURATION_MIN
    IN  Minutes(Max(MIN_DURATION_MIN, Min(duration_min, MAX_DURATION_MIN)))

\* The window taken as due_deadline - now, without its one-day minimum.
TargetOfPlainWindow(subtask, i, total_subtasks, deadline, t) ==
    IF subtask.planned_start # None
    THEN [num |-> subtask.planned_start[1], den |-> 1]
    ELSE IF deadline # None
    THEN LET window == deadline[1] - t
             den == Max(total_subtasks - 1, 1)
         IN  [num |-> t * den + window * i, den |-> den]
    ELSE [num |-> t + i * DAY, den |-> 1]

\* Without a deadline the requests spread over the horizon by position:
\* now + horizon * i/max(n-1, 1).
TargetOfHorizonSpread(subtask, i, total_subtasks, deadline, t) ==
    IF subtask.planned_start # None
    THEN [num |-> subtask.planned_start[1], den |-> 1]
    ELSE LET window == IF deadline # None
                       THEN Max(deadline[1] - t, DAY)
                       ELSE horizon_days * DAY
             den == Max(total_subtasks - 1, 1)
         IN  [num |-> t * den + window * i, den |-> den]

\* The target time as the exact fraction num/den of seconds: the source
\* multiplies the window by the float i/max(n-1,1); comparing den*start with
\* num orders whole-second starts exactly as the source orders them.
TargetOf(subtask, i, total_subtasks, deadline, t) ==
    IF subtask.planned_start # None
    THEN [num |-> subtask.planned_start[1], den |-> 1]
    ELSE IF deadline # None
    THEN LET window == Max(deadline[1] - t, DAY)
             den == Max(total_subtasks - 1, 1)
         IN  [num |-> t * den + window * i, den |-> den]
    ELSE [num |-> t + i * DAY, den |-> 1]

\* day_counts.get(slot start date, 0)
DayCount(sched, day) ==
    Cardinality({k \in 1..Len(sched) : DateOf(sched[k].start) = day})

\* The key with the day count ahead of the side of the target.
RankKeyCountFirst(slot, target, sched) ==
    << DayCount(sched, DateOf(slot[1])),
       IF slot[1] * target.den >= target.num THEN 0 ELSE 1,
       Abs(slot[1] * target.den - target.num) >>

RankKey(slot, target, sched) ==
    << IF slot[1] * target.den >= target.num THEN 0 ELSE 1,
       DayCount(sched, DateOf(slot[1])),
       Abs(slot[1] * target.den - target.num) >>

\* candidate_indices after its stable sort by the ranking key.
CandidateIndices(queue, target, sched) ==
    LET sorted == SortKeyed([i \in 1..Len(queue) |->
                                [key |-> RankKey(queue[i], target, sched), val |-> i]])
    IN  [p \in 1..Len(queue) |-> sorted[p].val]

----------------------------------------------------------------------------
(* Tentative placement of the candidate loop *)

\* The size test with the buffer left out: end - start < duration.
SlotTooShortNoBuffer(start, end, duration) ==
    end - start < duration

\* The size test, written identically in consume_slot and in the candidate
\* loop: the slot cannot hold the duration plus the 30-minute buffer.
SlotTooShort(start, end, duration) ==
    end - start < duration + Minutes(BUFFER_MIN)

PotentialStart(slot_start) ==
    LET rounded == _round_to_nearest_half_hour(slot_start)
        snapped == IF MinuteOf(slot_start) < 30
                   THEN ReplaceMinute(slot_start, 30)
                   ELSE ReplaceMinute(slot_start, 0) + 3600
    IN  IF rounded < slot_start
        THEN (IF snapped < slot_start THEN TruncSecond(slot_start) ELSE snapped)
        ELSE rounded

\* [reason, start, end]: reason "ok", or why the candidate is skipped
\* before the overlap check.
Potential(slot, duration) ==
    LET slot_start == slot[1]
        slot_end == slot[2]
        potential_start == PotentialStart(slot_start)
        potential_end_rounded == _round_to_nearest_half_hour(potential_start + duration)
        clamped == potential_end_rounded > slot_end
        potential_end == IF clamped THEN TruncSecond(slot_end) ELSE potential_end_rounded
    IN  IF SlotTooShort(slot_start, slot_end, duration)
        THEN [reason |-> "size", start |-> 0, end |-> 0]
        ELSE IF potential_start >= slot_end
        THEN [reason |-> "past_end", start |-> potential_start, end |-> 0]
        ELSE IF potential_end <= potential_start
        THEN (IF potential_start + duration > slot_end
              THEN [reason |-> "no_room", start |-> potential_start, end |-> 0]
              ELSE [reason |-> "ok", start |-> potential_start,
                    end |-> potential_start + duration])
        ELSE [reason |-> "ok", start |-> potential_start, end |-> potential_end]

\* The overlap test without the 30-minute buffers.
OverlapsWithoutBuffer(potential_start, potential_end, sched) ==
    \E k \in 1..Len(sched) :
        potential_start < sched[k].end /\ potential_end > sched[k].start

\* The overlap test with a one-hour buffer on each interval.
OverlapsHourBuffer(potential_start, potential_end, sched) ==
    \E k \in 1..Len(sched) :
        LET new_start == potential_start
            new_end == potential_end + Minutes(2 * BUFFER_MIN)
            existing_end_buffered == sched[k].end + Minutes(2 * BUFFER_MIN)
        IN  new_start < existing_end_buffered /\ new_end > sched[k].start

\* The buffered overlap test against everything already placed.
Overlaps(potential_start, potential_end, sched) ==
    \E k \in 1..Len(sched) :
        LET new_start == potential_start
            new_end == potential_end + Minutes(BUFFER_MIN)
            existing_end_buffered == sched[k].end + Minutes(BUFFER_MIN)
        IN  new_start < existing_end_buffered /\ new_end > sched[k].start

----------------------------------------------------------------------------
(* Slot consumer *)

\* The rounded slot start used as it is, without the re-snap.
AssignedStartRounded(start) ==
    _round_to_nearest_half_hour(start)


AssignedStart(start) ==
    LET rounded == _round_to_nearest_half_hour(start)
        snapped == IF MinuteOf(start) < 30
                   THEN ReplaceMinute(start, 30)
                   ELSE ReplaceMinute(start, 0) + 3600
    IN  IF rounded < start
        THEN (IF snapped < start THEN TruncSecond(start) ELSE snapped)
        ELSE rounded

RemoveAt(seq, i) == SubSeq(seq, 1, i - 1) \o SubSeq(seq, i + 1, Len(seq))

\* The remainder written to the head of the queue instead of entry i.
RemainderAtHead(queue, i, assigned_end) ==
    LET end == queue[i][2]
        buffer_end == assigned_end + Minutes(BUFFER_MIN)
    IN  IF buffer_end <= end THEN [queue EXCEPT ![1] = <<buffer_end, end>>]
        ELSE IF assigned_end < end THEN [queue EXCEPT ![1] = <<assigned_end, end>>]
        ELSE RemoveAt(queue, 1)

\* The remainder starting at the assigned end, without the buffer.
RemainderNoBuffer(queue, i, assigned_end) ==
    LET end == queue[i][2]
    IN  IF assigned_end < end THEN [queue EXCEPT ![i] = <<assigned_end, end>>]
        ELSE RemoveAt(queue, i)

\* The consumed entry removed and its remainder appended to the queue.
RemainderAppended(queue, i, assigned_end) ==
    LET end == queue[i][2]
        buffer_end == assigned_end + Minutes(BUFFER_MIN)
    IN  IF buffer_end <= end THEN Append(RemoveAt(queue, i), <<buffer_end, end>>)
        ELSE IF assigned_end < end THEN Append(RemoveAt(queue, i), <<assigned_end, end>>)
        ELSE RemoveAt(queue, i)

\* The queue after a consumption that assigned up to assigned_end.
Remainder(queue, i, assigned_end) ==
    LET end == queue[i][2]
        buffer_end == assigned_end + Minutes(BUFFER_MIN)
    IN  IF buffer_end <= end THEN [queue EXCEPT ![i] = <<buffer_end, end>>]
        ELSE IF assigned_end < end THEN [queue EXCEPT ![i] = <<assigned_end, end>>]
        ELSE RemoveAt(queue, i)

\* [ok, start, end, clamped, queue]: ok = FALSE is the source's None, with
\* the queue untouched.
consume_slot(queue, i, duration) ==
    LET start == queue[i][1]
        end == queue[i][2]
        fail == [ok |-> FALSE, start |-> 0, end |-> 0, clamped |-> FALSE,
                 queue |-> queue]
        assigned_start == AssignedStart(start)
        assigned_end_rounded == _round_to_nearest_half_hour(assigned_start + duration)
        clamped == assigned_end_rounded > end
        assigned_end == IF clamped THEN TruncSecond(end) ELSE assigned_end_rounded
        final_end == IF assigned_end <= assigned_start
                     THEN assigned_start + duration
                     ELSE assigned_end
    IN  IF SlotTooShort(start, end, duration) THEN fail
        ELSE IF assigned_start >= end THEN fail
        ELSE IF assigned_end <= assigned_start /\ final_end > end THEN fail
        ELSE [ok |-> TRUE, start |-> assigned_start, end |-> final_end,
              clamped |-> clamped /\ assigned_end > assigned_start,
              queue |-> Remainder(queue, i, final_end)]

----------------------------------------------------------------------------
(* Placement scheduler: the candidate loop of one request *)

NoRejects ==
    [stale |-> 0, size |-> 0, past_end |-> 0, no_room |-> 0, overlap |-> 0,
     consume |-> 0]

\* The loop leaving at the first candidate it turns down.
TryCandidatesFirstOnly(cands, queue, sched, duration, rej) ==
    LET none(r) == [assignment_slot |-> None, slot |-> None, clamped |-> FALSE,
                    queue |-> queue, rej |-> r]
        skip(reason) == none([rej EXCEPT ![reason] = @ + 1])
    IN  IF cands = << >> THEN none(rej)
        ELSE LET slot_idx == Head(cands)
             IN  IF slot_idx > Len(queue) THEN skip("stale")
                 ELSE LET p == Potential(queue[slot_idx], duration)
                      IN  IF p.reason # "ok" THEN skip(p.reason)
                          ELSE IF Overlaps(p.start, p.end, sched) THEN skip("overlap")
                          ELSE LET c == consume_slot(queue, slot_idx, duration)
                               IN  IF c.ok
                                   THEN [assignment_slot |-> Some(<<c.start, c.end>>),
                                         slot |-> Some(queue[slot_idx]),
                                         clamped |-> c.clamped,
                                         queue |-> c.queue, rej |-> rej]
                                   ELSE skip("consume")

\* Walks the ranked candidates until one is consumed.  assignment_slot is
\* Some(<<start, end>>) or None; slot and clamped describe the consumption.
RECURSIVE TryCandidates(_, _, _, _, _)
TryCandidates(cands, queue, sched, duration, rej) ==
    IF cands = << >>
    THEN [assignment_slot |-> None, slot |-> None, clamped |-> FALSE,
          queue |-> queue, rej |-> rej]
    ELSE LET slot_idx == Head(cands)
             skip(reason) == TryCandidates(Tail(cands), queue, sched, duration,
                                           [rej EXCEPT ![reason] = @ + 1])
         IN  IF slot_idx > Len(queue) THEN skip("stale")
             ELSE LET p == Potential(queue[slot_idx], duration)
                  IN  IF p.reason # "ok" THEN skip(p.reason)
                      ELSE IF Overlaps(p.start, p.end, sched) THEN skip("overlap")
                      ELSE LET c == consume_slot(queue, slot_idx, duration)
                           IN  IF c.ok
                               THEN [assignment_slot |-> Some(<<c.start, c.end>>),
                                     slot |-> Some(queue[slot_idx]),
                                     clamped |-> c.clamped,
                                     queue |-> c.queue, rej |-> rej]
                               ELSE skip("consume")

\* scheduled after the loop body of request number i (counted from 1).
RecordScheduled(sched, i, assignment_slot) ==
    IF assignment_slot # None
    THEN Append(sched, [sub |-> i, start |-> assignment_slot[1][1],
                        end |-> assignment_slot[1][2]])
    ELSE sched

\* The request appended without looking at assignment_slot.
RecordUnscheduledAlways(unsched, i, assignment_slot) ==
    Append(unsched, i)

\* The unplaced request inserted at the front of the list.
RecordUnscheduledFirst(unsched, i, assignment_slot) ==
    IF assignment_slot = None THEN << i >> \o unsched ELSE unsched

\* unscheduled after the loop body of request number i.
RecordUnscheduled(unsched, i, assignment_slot) ==
    IF assignment_slot = None THEN Append(unsched, i) ELSE unsched

\* The early return of the empty-request case taken instead: ([], []).
EmptySlotsResultNothing(tasks) ==
    [scheduled |-> << >>, unscheduled |-> << >>]

\* The early return on an empty free-slot list: (scheduled, unscheduled).
EmptySlotsResult(tasks) ==
    [scheduled |-> << >>, unscheduled |-> [k \in 1..Len(tasks) |-> k]]

\* The partition joined without the final sort.
InitialQueueUnsorted(slots, deadline) ==
    LET IsBefore(slot) == slot[1] <= deadline[1]
        IsAfter(slot) == slot[1] > deadline[1]
    IN  IF deadline # None
        THEN SelectSeq(slots, IsBefore) \o SelectSeq(slots, IsAfter)
        ELSE slots

\* The queue built from the free slots: partition by the deadline, then sort.
InitialQueue(slots, deadline) ==
    LET IsBefore(slot) == slot[1] <= deadline[1]
        IsAfter(slot) == slot[1] > deadline[1]
    IN  SortByStart(IF deadline # None
                    THEN SelectSeq(slots, IsBefore) \o SelectSeq(slots, IsAfter)
                    ELSE slots)

----------------------------------------------------------------------------
(* Placement scheduler: the whole call on given free slots *)

\* The request loop from request number i + 1 on; raised is TRUE when the
\* loop ends with the OverflowError of float() and nothing is returned.
RECURSIVE RunRequests(_, _, _, _, _, _, _)
RunRequests(tasks, i, queue, sched, unsched, deadline, t) ==
    IF i >= Len(tasks)
    THEN [raised |-> FALSE, scheduled |-> sched, unscheduled |-> unsched]
    ELSE IF FloatOverflows(tasks[i + 1])
    THEN [raised |-> TRUE, scheduled |-> << >>, unscheduled |-> << >>]
    ELSE LET subtask == tasks[i + 1]
             duration == DurationOf(subtask)
             target_time == TargetOf(subtask, i, Len(tasks), deadline, t)
             candidate_indices == CandidateIndices(queue, target_time, sched)
             r == TryCandidates(candidate_indices, queue, sched, duration, NoRejects)
         IN  RunRequests(tasks, i + 1, r.queue,
                         RecordScheduled(sched, i + 1, r.assignment_slot),
                         RecordUnscheduled(unsched, i + 1, r.assignment_slot),
                         deadline, t)

\* (scheduled, unscheduled) of one call with the free slots it was given.
_schedule_ai_subtasks(tasks, slots, deadline, t) ==
    IF slots = << >>
    THEN [raised |-> FALSE, scheduled |-> EmptySlotsResult(tasks).scheduled,
          unscheduled |-> EmptySlotsResult(tasks).unscheduled]
    ELSE RunRequests(tasks, 0, InitialQueue(slots, deadline), << >>, << >>,
                     deadline, t)

----------------------------------------------------------------------------
(* Inputs *)

NowChoices == { At(0, 8, 0, 0), At(0, 9, 40, 0), At(0, 10, 7, 23), At(0, 21, 30, 0) }

\* Events of day 0, listed as the table returns them (not by start).
BusyChoices ==
    << <<At(0, 20, 0, 0), At(1, 10, 0, 0)>>,
       <<At(0, 11, 0, 0), At(0, 21, 0, 0)>>,
       <<At(0, 10, 55, 0), At(0, 11, 0, 0)>>,
       <<At(0, 9, 20, 0), At(0, 10, 5, 0)>> >>

\* Events that fill the working window of every later day of the horizon,
\* and events that leave only its last hour free.
LaterDaysBooked ==
    [d \in 1..(horizon_days - 1) |-> <<At(d, work_start, 0, 0), At(d, work_end, 0, 0)>>]

LaterDaysLastHour ==
    [d \in 1..(horizon_days - 1) |-> <<At(d, work_start, 0, 0), At(d, work_end - 1, 0, 0)>>]

RECURSIVE Pick(_, _)
Pick(seq, keep) ==
    IF seq = << >> THEN << >>
    ELSE (IF Len(seq) \in keep THEN << seq[Len(seq)] >> ELSE << >>)
         \o Pick(SubSeq(seq, 1, Len(seq) - 1), keep)

RowChoices ==
    { Pick(BusyChoices, keep) \o later :
        keep \in { k \in SUBSET (1..Len(BusyChoices)) : Cardinality(k) <= MaxBusy },
        later \in { << >>, LaterDaysBooked, LaterDaysLastHour } }

TaskChoices ==
    { [estimated_hours |-> <<"num", 30>>, planned_start |-> None],
      [estimated_hours |-> <<"num", 45>>, planned_start |-> None],
      [estimated_hours |-> <<"none">>, planned_start |-> None] }

SubtaskLists == UNION { [1..n -> TaskChoices] : n \in 0..MaxTasks }

DueChoices == { None, Some(At(1, 23, 59, 0)) }

\* Inputs of a direct call of the subtractor: instants 0..MaxTime.
TestIntervals == { iv \in (0..MaxTime) \X (0..MaxTime) : iv[1] < iv[2] }

SegmentLists == UNION { [1..n -> TestIntervals] : n \in 0..MaxSegments }

NoSubtraction == [segments |-> << >>, busy |-> <<0, 1>>, result |-> None]

NoCall == [fn |-> "none", arg |-> None, result |-> None]

\* Timestamps handed to the rounder: every second of the first hours of day 0.
RoundInputs == 0..(MaxRoundHours * 3600 - 1)

\* estimated_hours values, as json.loads of the plan yields them: m/60 hours
\* for every m up to MaxEstimate (negative and zero included), absent, text
\* that float() rejects, Infinity, NaN, and an int beyond the range of a
\* float.
EstimateInputs ==
    { <<"num", m>> : m \in (0 - 60)..MaxEstimate }
        \cup { <<"none">>, <<"text">>, <<"inf">>, <<"nan">>, <<"huge">> }

\* A second family of runs: hinted requests, six-hour requests and a
\* deadline less than a day ahead, over day-0 calendars that leave slots of
\* exactly five and six hours or two slots five minutes apart.
PlanNowChoices == { At(0, 8, 0, 0), At(0, 9, 40, 0) }

PlanRowChoices ==
    { << <<At(0, 10, 55, 0), At(0, 11, 0, 0)>>,
         <<At(0, 13, 0, 0), At(0, 15, 0, 0)>> >> \o LaterDaysBooked,
      << <<At(0, 15, 0, 0), At(0, 21, 0, 0)>> >> \o LaterDaysBooked,
      << <<At(0, 14, 0, 0), At(0, 21, 0, 0)>> >> \o LaterDaysBooked,
      << <<At(0, 9, 0, 0), At(0, 21, 0, 0)>> >> \o LaterDaysBooked,
      LaterDaysLastHour,
      << >> }

PlanTaskChoices ==
    { [estimated_hours |-> <<"num", 45>>, planned_start |-> None],
      [estimated_hours |-> <<"num", 45>>, planned_start |-> Some(At(0, 10, 0, 0))],
      [estimated_hours |-> <<"num", 360>>, planned_start |-> None],
      [estimated_hours |-> <<"text">>, planned_start |-> Some(At(1, 14, 0, 0))] }

PlanSubtaskLists == UNION { [1..n -> PlanTaskChoices] : n \in 0..MaxTasks }

PlanDueChoices == { None, Some(At(0, 23, 59, 0)) }

\* A third family of runs: an empty calendar (and, for the early return, a
\* fully booked one), no hints, no deadline, and up to MaxSpreadTasks
\* requests that repeat one or alternate two estimates.
SpreadNowChoices ==
    { At(0, 8, 0, 0), At(0, 9, 40, 0), At(0, 15, 0, 0), At(0, 20, 0, 0),
      At(0, 21, 30, 0) }

SpreadRowChoices ==
    { << >>,
      << <<At(0, work_start, 0, 0), At(0, work_end, 0, 0)>> >> \o LaterDaysBooked }

SpreadEstimates == { <<"num", 30>>, <<"none">>, <<"num", 360>>, <<"huge">> }

SpreadSubtaskLists ==
    { [k \in 1..n |-> [estimated_hours |-> IF k % 2 = 1 THEN odd ELSE even,
                       planned_start |-> None]] :
        n \in 0..MaxSpreadTasks, odd \in SpreadEstimates, even \in SpreadEstimates }

\* Arguments of the queue construction: a free-slot list in any order and
\* an optional deadline, over the instants 0..MaxTime.
QueueInputs ==
    { [slots |-> slots, deadline |-> deadline] :
        slots \in SegmentLists,
        deadline \in { None } \cup { Some(t) : t \in 0..MaxTime } }

\* Arguments of a single consumption: slots that start at every minute of
\* an hour (on it, a second after it, a second before the next) and are
\* one second too short, exactly long enough or longer for the duration.
ConsumeInputs ==
    { [slot |-> <<At(0, work_start, m, s), At(0, work_start, m, s) + d + Minutes(BUFFER_MIN) + slack>>,
       duration |-> d] :
        m \in 0..59,
        s \in { 0, 1, 59 },
        d \in { Minutes(30), Minutes(30) + 36, Minutes(45), Minutes(60), Minutes(360) },
        slack \in { 0 - 1, 0, 1, 59, 60, Minutes(15), Minutes(120) } }

\* Arguments of the target computation: [subtask, i, n, deadline, now].
TargetInputs ==
    { [subtask |-> [estimated_hours |-> <<"none">>, planned_start |-> hint],
       i |-> i, n |-> n, deadline |-> deadline, now |-> t] :
        hint \in { None, Some(At(0, 19, 0, 0)) },
        n \in 1..MaxTargetTasks,
        i \in 0..(MaxTargetTasks - 1),
        deadline \in { None, Some(At(0 - 1, 23, 59, 0)), Some(At(0, 23, 59, 0)),
                       Some(At(1, 23, 59, 0)), Some(At(3, 23, 59, 0)) },
        t \in { At(0, 8, 0, 0), At(0, 9, 40, 0) } }

----------------------------------------------------------------------------
(* The run *)

Init ==
    /\ pc = "start"
    /\ now \in NowChoices
    /\ rows \in RowChoices
    /\ subtasks \in SubtaskLists
    /\ due_deadline \in DueChoices
    /\ free_slots = << >>
    /\ slot_queue = << >>
    /\ scheduled = << >>
    /\ unscheduled = << >>
    /\ idx = 0
    /\ placed_in = << >>
    /\ rejects = NoRejects
    /\ subtraction = NoSubtraction
    /\ call = NoCall

GenerateFreeSlots ==
    /\ pc = "start"
    /\ free_slots' = _generate_free_slots(rows, now, horizon_days)
    /\ pc' = "generated"
    /\ UNCHANGED <<now, rows, subtasks, due_deadline, slot_queue, scheduled,
                   unscheduled, idx, placed_in, rejects,
                   subtraction, call>>

ReturnNoSlots ==
    /\ pc = "generated"
    /\ free_slots = << >>
    /\ scheduled' = EmptySlotsResult(subtasks).scheduled
    /\ unscheduled' = EmptySlotsResult(subtasks).unscheduled
    /\ pc' = "done"
    /\ UNCHANGED <<now, rows, subtasks, due_deadline, free_slots, slot_queue,
                   idx, placed_in, rejects, subtraction, call>>

BuildQueue ==
    /\ pc = "generated"
    /\ free_slots # << >>
    /\ slot_queue' = InitialQueue(free_slots, due_deadline)
    /\ pc' = "loop"
    /\ UNCHANGED <<now, rows, subtasks, due_deadline, free_slots, scheduled,
                   unscheduled, idx, placed_in, rejects,
                   subtraction, call>>

ScheduleSubtask ==
    /\ pc = "loop"
    /\ idx < Len(subtasks)
    /\ IF FloatOverflows(subtasks[idx + 1])
       THEN /\ pc' = "raised"
            /\ UNCHANGED <<slot_queue, scheduled, unscheduled, placed_in, rejects,
                           idx>>
       ELSE /\ LET subtask == subtasks[idx + 1]
                   duration == DurationOf(subtask)
                   target_time == TargetOf(subtask, idx, Len(subtasks), due_deadline,
                                           now)
                   candidate_indices == CandidateIndices(slot_queue, target_time,
                                                         scheduled)
                   r == TryCandidates(candidate_indices, slot_queue, scheduled,
                                      duration, rejects)
               IN  /\ slot_queue' = r.queue
                   /\ scheduled' = RecordScheduled(scheduled, idx + 1,
                                                   r.assignment_slot)
                   /\ unscheduled' = RecordUnscheduled(unscheduled, idx + 1,
                                                       r.assignment_slot)
                   /\ placed_in' = IF r.assignment_slot # None
                                   THEN Append(placed_in, [slot |-> r.slot[1],
                                                           clamped |-> r.clamped])
                                   ELSE placed_in
                   /\ rejects' = r.rej
            /\ idx' = idx + 1
            /\ pc' = pc
    /\ UNCHANGED <<now, rows, subtasks, due_deadline, free_slots, subtraction,
                   call>>

ReturnResults ==
    /\ pc = "loop"
    /\ idx >= Len(subtasks)
    /\ pc' = "done"
    /\ UNCHANGED <<now, rows, subtasks, due_deadline, free_slots, slot_queue,
                   scheduled, unscheduled, idx, placed_in, rejects,
                   subtraction, call>>

Next ==
    \/ GenerateFreeSlots
    \/ ReturnNoSlots
    \/ BuildQueue
    \/ ScheduleSubtask
    \/ ReturnResults

Spec == Init /\ [][Next]_vars

----------------------------------------------------------------------------
(* A direct call of the interval subtractor *)

InitSubtract ==
    /\ pc = "subtract"
    /\ subtraction \in [segments : SegmentLists, busy : TestIntervals, result : {None}]
    /\ now = 0
    /\ rows = << >>
    /\ subtasks = << >>
    /\ due_deadline = None
    /\ free_slots = << >>
    /\ slot_queue = << >>
    /\ scheduled = << >>
    /\ unscheduled = << >>
    /\ idx = 0
    /\ placed_in = << >>
    /\ rejects = NoRejects
    /\ call = NoCall

ApplySubtract ==
    /\ pc = "subtract"
    /\ subtraction' = [subtraction EXCEPT
           !.result = Some(_subtract_interval(subtraction.segments, subtraction.busy))]
    /\ pc' = "subtracted"
    /\ UNCHANGED <<now, rows, subtasks, due_deadline, free_slots, slot_queue,
                   scheduled, unscheduled, idx, placed_in, rejects, call>>

NextSubtract == ApplySubtract

SpecSubtract == InitSubtract /\ [][NextSubtract]_vars

InitPlan ==
    /\ pc = "start"
    /\ now \in PlanNowChoices
    /\ rows \in PlanRowChoices
    /\ subtasks \in PlanSubtaskLists
    /\ due_deadline \in PlanDueChoices
    /\ free_slots = << >>
    /\ slot_queue = << >>
    /\ scheduled = << >>
    /\ unscheduled = << >>
    /\ idx = 0
    /\ placed_in = << >>
    /\ rejects = NoRejects
    /\ subtraction = NoSubtraction
    /\ call = NoCall

SpecPlan == InitPlan /\ [][Next]_vars

InitSpread ==
    /\ pc = "start"
    /\ now \in SpreadNowChoices
    /\ rows \in SpreadRowChoices
    /\ subtasks \in SpreadSubtaskLists
    /\ due_deadline = None
    /\ free_slots = << >>
    /\ slot_queue = << >>
    /\ scheduled = << >>
    /\ unscheduled = << >>
    /\ idx = 0
    /\ placed_in = << >>
    /\ rejects = NoRejects
    /\ subtraction = NoSubtraction
    /\ call = NoCall

SpecSpread == InitSpread /\ [][Next]_vars

----------------------------------------------------------------------------
(* Direct calls of the rounder, the duration clamp and the target time *)

InitCalls ==
    /\ pc = "call"
    /\ call \in [fn : {"round"}, arg : RoundInputs, result : {None}]
            \cup [fn : {"duration"}, arg : EstimateInputs, result : {None}]
            \cup [fn : {"target"}, arg : { a \in TargetInputs : a.i < a.n },
                  result : {None}]
            \cup [fn : {"queue"}, arg : QueueInputs, result : {None}]
            \cup [fn : {"consume"}, arg : ConsumeInputs, result : {None}]
    /\ now = 0
    /\ rows = << >>
    /\ subtasks = << >>
    /\ due_deadline = None
    /\ free_slots = << >>
    /\ slot_queue = << >>
    /\ scheduled = << >>
    /\ unscheduled = << >>
    /\ idx = 0
    /\ placed_in = << >>
    /\ rejects = NoRejects
    /\ subtraction = NoSubtraction

Returned(value) ==
    /\ call' = [call EXCEPT !.result = Some(value)]
    /\ pc' = "returned"
    /\ UNCHANGED <<now, rows, subtasks, due_deadline, free_slots, slot_queue,
                   scheduled, unscheduled, idx, placed_in, rejects, subtraction>>

\* The rounder applied to a timestamp, and again to its own result.
ApplyRound ==
    /\ pc = "call"
    /\ call.fn = "round"
    /\ Returned([once |-> _round_to_nearest_half_hour(call.arg),
                 twice |-> _round_to_nearest_half_hour(
                               _round_to_nearest_half_hour(call.arg))])

ApplyDuration ==
    /\ pc = "call"
    /\ call.fn = "duration"
    /\ LET subtask == [estimated_hours |-> call.arg, planned_start |-> None]
       IN  IF FloatOverflows(subtask)
           THEN /\ pc' = "raised"
                /\ UNCHANGED <<now, rows, subtasks, due_deadline, free_slots,
                               slot_queue, scheduled, unscheduled, idx, placed_in,
                               rejects, subtraction, call>>
           ELSE Returned(DurationOf(subtask))

ApplyTarget ==
    /\ pc = "call"
    /\ call.fn = "target"
    /\ Returned(TargetOf(call.arg.subtask, call.arg.i, call.arg.n,
                         call.arg.deadline, call.arg.now))

\* The partition by the deadline and the sort that build slot_queue.
ApplyQueue ==
    /\ pc = "call"
    /\ call.fn = "queue"
    /\ Returned(InitialQueue(call.arg.slots, call.arg.deadline))

\* The tentative placement of the candidate loop and consume_slot, both
\* on a queue that holds the one slot.
ApplyConsume ==
    /\ pc = "call"
    /\ call.fn = "consume"
    /\ Returned([potential |-> Potential(call.arg.slot, call.arg.duration),
                 consumed |-> consume_slot(<< call.arg.slot >>, 1, call.arg.duration)])

NextCalls ==
    \/ ApplyRound
    \/ ApplyDuration
    \/ ApplyTarget
    \/ ApplyQueue
    \/ ApplyConsume

SpecCalls == InitCalls /\ [][NextCalls]_vars

----------------------------------------------------------------------------
(* Shared vocabulary of the properties *)

BufferedIntersect(a, b) ==
    /\ a.start < b.end + Minutes(BUFFER_MIN)
    /\ b.start < a.end + Minutes(BUFFER_MIN)

Intersects(s1, e1, s2, e2) == s1 < e2 /\ s2 < e1

InWorkingWindow(slot) ==
    \E d \in 0..(horizon_days - 1) :
        At(d, work_start, 0, 0) <= slot[1] /\ slot[2] <= At(d, work_end, 0, 0)

Increasing(seq) == \A k \in 1..(Len(seq) - 1) : seq[k] < seq[k + 1]

ScheduledSubs == [k \in 1..Len(scheduled) |-> scheduled[k].sub]

\* Minute-of-hour 0 or 30 with zero seconds.
OnGrid(t) == t % 1800 = 0

\* One pass of the request loop, its request, and what came of it.
RequestStep == pc = "loop" /\ idx < Len(subtasks) /\ idx' = idx + 1
StepDuration == DurationOf(subtasks[idx + 1])
StepTarget == TargetOf(subtasks[idx + 1], idx, Len(subtasks), due_deadline, now)
StepPlaced == Len(scheduled') = Len(scheduled) + 1
StepUnscheduled ==
    unscheduled' = Append(unscheduled, idx + 1) /\ scheduled' = scheduled
SlotLength(slot) == slot[2] - slot[1]

SortedByStart(seq) == \A k \in 1..(Len(seq) - 1) : seq[k][1] <= seq[k + 1][1]
PairwiseDisjoint(seq) ==
    \A i, j \in 1..Len(seq) :
        i < j => ~Intersects(seq[i][1], seq[i][2], seq[j][1], seq[j][2])

\* Every two distinct slots are at least 30 minutes apart.
GapsOfHalfHour(seq) ==
    \A i, j \in 1..Len(seq) :
        i # j => \/ seq[j][1] >= seq[i][2] + Minutes(30)
                 \/ seq[i][1] >= seq[j][2] + Minutes(30)

RoundReturned == call.fn = "round" /\ call.result # None
DurationCalled == call.fn = "duration" /\ pc # "call"
TargetReturned == call.fn = "target" /\ call.result # None
QueueReturned == call.fn = "queue" /\ call.result # None
ConsumeReturned == call.fn = "consume" /\ call.result # None

----------------------------------------------------------------------------
(* C1: the buffered intervals [start, end + 30min) of any two distinct
   assignments of a run never intersect, whatever slots they came from. *)
C1_NoBufferedOverlap ==
    \A i, j \in 1..Len(scheduled) :
        i # j => ~BufferedIntersect(scheduled[i], scheduled[j])

\* Two assignments from different slots after the overlap test turned a
\* candidate down.
C1_Witness ==
    /\ pc = "done"
    /\ rejects.overlap > 0
    /\ \E i, j \in 1..Len(scheduled) : placed_in[i].slot[2] # placed_in[j].slot[2]

(* C2: no assignment intersects a supplied busy interval (start < end,
   start at or after now), intervals running past midnight included. *)
C2_NoBusyConflict ==
    \A k \in 1..Len(scheduled), r \in 1..Len(rows) :
        (rows[r][1] < rows[r][2] /\ rows[r][1] >= now)
            => ~Intersects(scheduled[k].start, scheduled[k].end, rows[r][1], rows[r][2])

(* C3: every generated free slot lies in a 09:00-21:00 window of the
   horizon, starts no earlier than now and meets no busy interval the
   generator was given. *)
C3_NoInventedTime ==
    \A k \in 1..Len(free_slots) :
        /\ InWorkingWindow(free_slots[k])
        /\ free_slots[k][1] >= now
        /\ \A r \in 1..Len(rows) :
               RowIsBusy(rows[r], now)
                   => ~Intersects(free_slots[k][1], free_slots[k][2],
                                  rows[r][1], rows[r][2])

\* Number of pieces of segs that cover the unit cell [t, t+1).
CoverCount(segs, t) ==
    Cardinality({k \in 1..Len(segs) : segs[k][1] <= t /\ t < segs[k][2]})

InBusy(t) == subtraction.busy[1] <= t /\ t < subtraction.busy[2]

(* C4 as stated: every point of the output is in an input segment and not
   in busy, and every point of an input segment outside busy is covered by
   exactly one output piece. *)
C4_CoveredExactlyOnce ==
    subtraction.result # None =>
        \A t \in 0..(MaxTime - 1) :
            /\ CoverCount(subtraction.result[1], t) > 0
                   => (CoverCount(subtraction.segments, t) > 0 /\ ~InBusy(t))
            /\ (CoverCount(subtraction.segments, t) > 0 /\ ~InBusy(t))
                   => CoverCount(subtraction.result[1], t) = 1

(* C4 amended: a point in busy is covered by no output piece, and any other
   point by exactly as many output pieces as input segments cover it (one,
   when the input segments are pairwise disjoint). *)
C4_SubtractionCorrect ==
    subtraction.result # None =>
        \A t \in 0..(MaxTime - 1) :
            CoverCount(subtraction.result[1], t)
                = (IF InBusy(t) THEN 0 ELSE CoverCount(subtraction.segments, t))

\* One segment is split around busy and another one, inside busy, is dropped.
C4_Witness ==
    /\ subtraction.result # None
    /\ \E k \in 1..Len(subtraction.segments) :
           /\ subtraction.segments[k][1] < subtraction.busy[1]
           /\ subtraction.busy[2] < subtraction.segments[k][2]
    /\ \E k \in 1..Len(subtraction.segments) :
           /\ subtraction.busy[1] <= subtraction.segments[k][1]
           /\ subtraction.segments[k][2] <= subtraction.busy[2]
    /\ Len(subtraction.result[1]) = 2

(* C5: an assignment whose end was not clamped to its slot's end lasts at
   least 30 minutes. *)
C5_MinDuration ==
    \A k \in 1..Len(scheduled) :
        ~placed_in[k].clamped
            => scheduled[k].end - scheduled[k].start >= Minutes(MIN_DURATION_MIN)

(* C6: every generated free slot lasts at least 30 minutes and lies inside
   the 09:00-21:00 window of one calendar day of the horizon. *)
C6_FreeSlotShape ==
    \A k \in 1..Len(free_slots) :
        /\ free_slots[k][2] - free_slots[k][1] >= Minutes(MIN_SLOT_MIN)
        /\ InWorkingWindow(free_slots[k])

\* A day split by a busy interval: a slot that begins at the end of an event.
C6_Witness ==
    /\ pc = "generated"
    /\ \E k \in 1..Len(free_slots), r \in 1..Len(rows) :
           /\ free_slots[k][1] = rows[r][2]
           /\ free_slots[k][2] - free_slots[k][1] < 12 * 3600

(* C7: every request ends in exactly one output: the outputs count the
   requests handled so far (all of them at the end), no request is assigned
   twice or both assigned and unscheduled, and a request no candidate
   accepts is in the unscheduled list. *)
C7_ExactlyOneOutcome ==
    /\ Len(scheduled) + Len(unscheduled)
           = (IF pc = "done" THEN Len(subtasks) ELSE idx)
    /\ \A i, j \in 1..Len(scheduled) : i # j => scheduled[i].sub # scheduled[j].sub
    /\ \A i \in 1..Len(scheduled), j \in 1..Len(unscheduled) :
           scheduled[i].sub # unscheduled[j]
    /\ pc = "done" =>
           \A n \in 1..Len(subtasks) :
               \/ \E i \in 1..Len(scheduled) : scheduled[i].sub = n
               \/ \E j \in 1..Len(unscheduled) : unscheduled[j] = n

\* A finished run with a placed and an unplaced request, in which both the
\* size test and the overlap test rejected a candidate.
C7_Witness ==
    /\ pc = "done"
    /\ free_slots # << >>
    /\ scheduled # << >>
    /\ unscheduled # << >>
    /\ rejects.size > 0
    /\ rejects.overlap > 0

(* C8: both outputs list their requests in input order, and only requests
   the loop has already reached. *)
C8_OrderPreserved ==
    /\ Increasing(ScheduledSubs)
    /\ Increasing(unscheduled)
    /\ \A k \in 1..Len(unscheduled) : unscheduled[k] \in 1..Len(subtasks)
    /\ pc = "loop" =>
           /\ \A k \in 1..Len(unscheduled) : unscheduled[k] <= idx
           /\ \A k \in 1..Len(scheduled) : scheduled[k].sub <= idx

\* Unplaced and placed requests interleave: an early request is unscheduled,
\* a later one is placed, a still later one is unscheduled again.
C8_Witness ==
    /\ pc = "done"
    /\ free_slots # << >>
    /\ \E u, v \in 1..Len(unscheduled), k \in 1..Len(scheduled) :
           unscheduled[u] < scheduled[k].sub /\ scheduled[k].sub < unscheduled[v]

(* C9: with no free slot the run returns nothing scheduled and every
   request unscheduled in input order, without entering the loop. *)
C9_EmptyFreeSlots ==
    (pc = "done" /\ free_slots = << >>)
        => /\ scheduled = << >>
           /\ unscheduled = [k \in 1..Len(subtasks) |-> k]
           /\ idx = 0
           /\ rejects = NoRejects

C9_Witness ==
    /\ pc = "done"
    /\ free_slots = << >>
    /\ Len(subtasks) >= 2


----------------------------------------------------------------------------
(* C11: rounding is idempotent: for every timestamp t, rounding the rounded
   value again gives the rounded value. *)
C11_RoundIdempotent ==
    RoundReturned => call.result[1].twice = call.result[1].once

\* A timestamp with seconds in the last quarter of its hour, moved to the
\* next hour and left there by the second rounding.
C11_Witness ==
    /\ RoundReturned
    /\ MinuteOf(call.arg) >= 45
    /\ SecondOf(call.arg) # 0
    /\ call.result[1].once = ReplaceMinute(call.arg, 0) + 3600
    /\ call.result[1].twice = call.result[1].once

(* C12: for every timestamp t the rounded value lies on the half-hour grid
   (minute 0 or 30, zero seconds), and a t already on the grid is returned
   unchanged. *)
C12_RoundedOnGrid ==
    RoundReturned =>
        /\ OnGrid(call.result[1].once)
        /\ OnGrid(call.arg) => call.result[1].once = call.arg

(* C13: the rounder never returns a value earlier than its argument, for
   every timestamp t, minute-of-hour in [15, 45) included. *)
C13_RoundsUp ==
    RoundReturned => call.result[1].once >= call.arg

(* C14: the effective duration of every request is within [0.5h, 6.0h]: a
   numeric estimate is clamped into that range, a missing or unparsable one
   is replaced by 2.0h before clamping, and no estimate aborts the run. *)
C14_DurationClamped ==
    DurationCalled =>
        /\ pc = "returned"
        /\ LET e == call.arg
               d == call.result[1]
           IN  /\ Minutes(30) <= d /\ d <= Minutes(360)
               /\ e[1] = "num" /\ e[2] < 30 => d = Minutes(30)
               /\ e[1] = "num" /\ e[2] > 360 => d = Minutes(360)
               /\ e[1] = "num" /\ 30 <= e[2] /\ e[2] <= 360 => d = Minutes(e[2])
               /\ e[1] \in {"inf", "huge"} => d = Minutes(360)
               /\ e[1] \in {"none", "text"} => d = Minutes(120)

(* C20: the target of request i of n is the hint if one is present;
   otherwise, with a deadline D, now + (D - now) * i/(n-1) for n >= 2 (the
   first request targets now, the last exactly D), for every D, also one
   less than a day ahead or already past; otherwise now + i days. *)
C20_TargetInterpolatesToDeadline ==
    TargetReturned =>
        LET a == call.arg
            target == call.result[1]
        IN  IF a.subtask.planned_start # None
            THEN target.num = target.den * a.subtask.planned_start[1]
            ELSE IF a.deadline # None
            THEN a.n >= 2 =>
                     /\ target.num * (a.n - 1)
                            = target.den * (a.now * (a.n - 1)
                                            + (a.deadline[1] - a.now) * a.i)
                     /\ a.i = 0 => target.num = target.den * a.now
                     /\ a.i = a.n - 1 => target.num = target.den * a.deadline[1]
            ELSE target.num = target.den * (a.now + a.i * DAY)

(* C20 as the code has it: the interpolation window is D - now or one day,
   whichever is longer, so the last request targets D only when D is at
   least a day ahead, and now + 1 day otherwise. *)
C20_TargetWithDayFloor ==
    TargetReturned =>
        LET a == call.arg
            target == call.result[1]
            span == IF a.deadline # None /\ a.deadline[1] - a.now >= DAY
                    THEN a.deadline[1] - a.now
                    ELSE DAY
        IN  IF a.subtask.planned_start # None
            THEN target.num = target.den * a.subtask.planned_start[1]
            ELSE IF a.deadline # None
            THEN a.n >= 2 =>
                     /\ target.num * (a.n - 1)
                            = target.den * (a.now * (a.n - 1) + span * a.i)
                     /\ a.i = 0 => target.num = target.den * a.now
                     /\ a.i = a.n - 1 => target.num = target.den * (a.now + span)
            ELSE target.num = target.den * (a.now + a.i * DAY)

\* The last of three requests, no hint, deadline less than a day ahead:
\* its target is a day after now, past the deadline.
C20_Witness ==
    /\ TargetReturned
    /\ call.arg.subtask.planned_start = None
    /\ call.arg.deadline # None
    /\ call.arg.n = 3
    /\ call.arg.i = 2
    /\ 0 < call.arg.deadline[1] - call.arg.now
    /\ call.arg.deadline[1] - call.arg.now < DAY
    /\ call.result[1].num = call.result[1].den * (call.arg.now + DAY)

(* C15: a request of effective duration d is never placed in a queue slot
   whose current length is below d + 30 minutes (a 6h request is turned
   down by a slot of 5h or of exactly 6h), and it is unscheduled when no
   slot of the queue is long enough. *)
C15_SizeCheck ==
    [][RequestStep =>
          /\ StepPlaced =>
                 SlotLength(placed_in'[Len(placed_in')].slot)
                     >= StepDuration + Minutes(30)
          /\ (\A q \in 1..Len(slot_queue) :
                  SlotLength(slot_queue[q]) < StepDuration + Minutes(30))
                 => StepUnscheduled]_vars

\* A 6h request is unscheduled with the only slot, 09:00-15:00, still queued.
C15_Witness ==
    /\ pc = "done"
    /\ Len(subtasks) = 1
    /\ DurationOf(subtasks[1]) = Minutes(360)
    /\ unscheduled = << 1 >>
    /\ slot_queue = << <<At(0, 9, 0, 0), At(0, 15, 0, 0)>> >>
    /\ rejects.size = 1

(* C16: a successful consumption replaces the consumed entry by
   [assignedEnd + 30min, slot.end) if that has positive duration, else by
   [assignedEnd, slot.end) if that has positive duration, else removes it;
   so every queue entry has start < end in every reachable state. *)
C16_RemainderProper ==
    /\ [](\A q \in 1..Len(slot_queue) : slot_queue[q][1] < slot_queue[q][2])
    /\ [][RequestStep /\ StepPlaced =>
             LET slot == placed_in'[Len(placed_in')].slot
                 assigned_end == scheduled'[Len(scheduled')].end
                 i == CHOOSE q \in 1..Len(slot_queue) : slot_queue[q] = slot
             IN  slot_queue' =
                     IF assigned_end + Minutes(30) < slot[2]
                     THEN [slot_queue EXCEPT ![i] = <<assigned_end + Minutes(30), slot[2]>>]
                     ELSE IF assigned_end < slot[2]
                     THEN [slot_queue EXCEPT ![i] = <<assigned_end, slot[2]>>]
                     ELSE RemoveAt(slot_queue, i)]_vars

(* C17: every assignment starts on the half-hour grid and at or after the
   start of the slot it was placed in, whatever the slot start (hh:05 or
   hh:40 after a busy interval included); its end is on the grid unless it
   was clamped to the slot end. *)
C17_AssignmentsOnGrid ==
    \A k \in 1..Len(scheduled) :
        /\ OnGrid(scheduled[k].start)
        /\ scheduled[k].start >= placed_in[k].slot[1]
        /\ ~placed_in[k].clamped => OnGrid(scheduled[k].end)

(* C18: first fit over the ranking: a request is placed in the first
   candidate of the ranked order that passes the size check and the
   buffered-overlap check, and is unscheduled only if no entry of the
   current queue passes both. *)
C18_FirstFit ==
    [][RequestStep =>
          LET order == CandidateIndices(slot_queue, StepTarget, scheduled)
              Passes(q) ==
                  /\ SlotLength(slot_queue[q]) >= StepDuration + Minutes(30)
                  /\ LET p == Potential(slot_queue[q], StepDuration)
                     IN  \A k \in 1..Len(scheduled) :
                             ~BufferedIntersect([start |-> p.start, end |-> p.end],
                                                scheduled[k])
              passing == { r \in 1..Len(order) : Passes(order[r]) }
          IN  IF passing # {}
              THEN LET first == CHOOSE r \in passing : \A o \in passing : r <= o
                   IN  /\ StepPlaced
                       /\ unscheduled' = unscheduled
                       /\ placed_in'[Len(placed_in')].slot = slot_queue[order[first]]
              ELSE StepUnscheduled]_vars

\* The second request was turned down by the overlap test in the slot
\* ranked first for it and placed in the next one.
C18_Witness ==
    /\ idx = 2
    /\ Len(scheduled) = 2
    /\ scheduled[2].sub = 2
    /\ rejects.overlap = 1
    /\ rejects.size = 0
    /\ placed_in[2].slot[1] > scheduled[1].end + Minutes(30)

(* C19: candidates are tried in lexicographic order of (starts before the
   target, assignments already on the slot's day, distance to the target):
   a slot at or after the target comes before every slot before it, also
   when the earlier slot's day has fewer assignments; on the same side
   fewer assignments come first; then the closer slot. *)
C19_RankedOrder ==
    (pc = "loop" /\ idx < Len(subtasks)) =>
        LET order == CandidateIndices(slot_queue, StepTarget, scheduled)
            Before(q) == slot_queue[q][1] * StepTarget.den < StepTarget.num
            Count(q) == DayCount(scheduled, DateOf(slot_queue[q][1]))
            Distance(q) == Abs(slot_queue[q][1] * StepTarget.den - StepTarget.num)
        IN  /\ { order[r] : r \in 1..Len(order) } = 1..Len(slot_queue)
            /\ \A r, o \in 1..Len(order) :
                   r < o =>
                       LET a == order[r]
                           b == order[o]
                       IN  /\ Before(a) => Before(b)
                           /\ Before(a) = Before(b) => Count(a) <= Count(b)
                           /\ (Before(a) = Before(b) /\ Count(a) = Count(b))
                                  => Distance(a) <= Distance(b)

\* A slot at or after the target on a day that already has an assignment
\* is ranked ahead of a slot before the target on a day that has none.
C19_Witness ==
    /\ pc = "loop"
    /\ idx < Len(subtasks)
    /\ LET order == CandidateIndices(slot_queue, StepTarget, scheduled)
       IN  \E r, o \in 1..Len(order) :
               /\ r < o
               /\ slot_queue[order[r]][1] * StepTarget.den >= StepTarget.num
               /\ slot_queue[order[o]][1] * StepTarget.den < StepTarget.num
               /\ DayCount(scheduled, DateOf(slot_queue[order[r]][1])) > 0
               /\ DayCount(scheduled, DateOf(slot_queue[order[o]][1])) = 0

(* C21: frame of one request step: an unscheduled request leaves the queue
   and the scheduled list as they were; a placed request replaces or
   removes exactly the consumed queue entry, and every other queue entry
   and every earlier assignment is unchanged. *)
C21_StepFrame ==
    [][RequestStep =>
          IF StepPlaced
          THEN /\ SubSeq(scheduled', 1, Len(scheduled)) = scheduled
               /\ unscheduled' = unscheduled
               /\ \E i \in 1..Len(slot_queue) :
                      /\ slot_queue[i] = placed_in'[Len(placed_in')].slot
                      /\ \/ slot_queue' = RemoveAt(slot_queue, i)
                         \/ /\ Len(slot_queue') = Len(slot_queue)
                            /\ slot_queue'[i] # slot_queue[i]
                            /\ \A j \in 1..Len(slot_queue) :
                                   j # i => slot_queue'[j] = slot_queue[j]
          ELSE /\ slot_queue' = slot_queue
               /\ scheduled' = scheduled
               /\ unscheduled' = Append(unscheduled, idx + 1)]_vars

\* The third request was placed from a queue entry that is not the first,
\* after an earlier request was left unscheduled.
C21_Witness ==
    /\ idx = 3
    /\ Len(scheduled) = 2
    /\ Len(unscheduled) = 1
    /\ scheduled[2].sub = 3
    /\ placed_in[2].slot[1] > placed_in[1].slot[2]

(* C22: sequential packing in one slot: with a single free slot [S, E), S
   on the half-hour grid, and requests without hints that all have the
   same duration d, a multiple of 30 minutes, request j (from 0) is placed
   at [S + j*(d+30min), S + j*(d+30min) + d) as long as the rest of the
   slot is at least d + 30min long, and the queue remainder after it
   starts at its end + 30min. *)
C22_SequentialPacking ==
    (/\ pc \in {"loop", "done"}
     /\ Len(free_slots) = 1
     /\ OnGrid(free_slots[1][1])
     /\ Len(subtasks) >= 1
     /\ \A i \in 1..Len(subtasks) :
            /\ subtasks[i].planned_start = None
            /\ DurationOf(subtasks[i]) = DurationOf(subtasks[1])
     /\ DurationOf(subtasks[1]) % Minutes(30) = 0)
    => LET S == free_slots[1][1]
           E == free_slots[1][2]
           d == DurationOf(subtasks[1])
           Begin(j) == S + j * (d + Minutes(30))
           Fits(j) == E - Begin(j) >= d + Minutes(30)
       IN  /\ \A j \in 0..(idx - 1) :
                  IF Fits(j)
                  THEN \E k \in 1..Len(scheduled) :
                           scheduled[k] = [sub |-> j + 1, start |-> Begin(j),
                                           end |-> Begin(j) + d]
                  ELSE \E u \in 1..Len(unscheduled) : unscheduled[u] = j + 1
           /\ (idx >= 1 /\ Fits(idx - 1))
                  => slot_queue[1][1] = Begin(idx - 1) + d + Minutes(30)

\* Three 2h requests in the single slot 09:00-21:00 are placed at 09:00,
\* 11:30 and 14:00, and the queue is left with 16:30-21:00.
C22_Witness ==
    /\ pc = "done"
    /\ free_slots = << <<At(0, 9, 0, 0), At(0, 21, 0, 0)>> >>
    /\ Len(scheduled) = 3
    /\ scheduled[1].start = At(0, 9, 0, 0) /\ scheduled[1].end = At(0, 11, 0, 0)
    /\ scheduled[2].start = At(0, 11, 30, 0)
    /\ scheduled[3].start = At(0, 14, 0, 0)
    /\ slot_queue = << <<At(0, 16, 30, 0), At(0, 21, 0, 0)>> >>

(* C23: no free slot of the generator starts before now: a day whose
   09:00-21:00 window has fully elapsed contributes no slot, and when now
   falls inside today's window every slot of today starts at or after now. *)
C23_NoSlotBeforeNow ==
    \A k \in 1..Len(free_slots) :
        /\ free_slots[k][1] >= now
        /\ At(DateOf(free_slots[k][1]), work_end, 0, 0) > now

\* now is 10:07:23, inside today's window, and today's slot starts at now.
C23_Witness ==
    /\ pc = "generated"
    /\ now > At(0, work_start, 0, 0)
    /\ now < At(0, work_end, 0, 0)
    /\ SecondOf(now) # 0
    /\ Len(free_slots) >= 1
    /\ free_slots[1][1] = now

(* C24: the before/after partition by the deadline has no observable
   effect: for every free-slot list and every deadline, present or absent,
   the initial queue is the same sequence, the free slots sorted by start
   ascending. *)
C24_PartitionInvisible ==
    QueueReturned =>
        LET slots == call.arg.slots
            queue == call.result[1]
        IN  /\ queue = InitialQueue(slots, None)
            /\ Len(queue) = Len(slots)
            /\ \A k \in 1..(Len(queue) - 1) : queue[k][1] <= queue[k + 1][1]
            /\ \A seg \in { slots[k] : k \in 1..Len(slots) } :
                   Cardinality({ k \in 1..Len(slots) : slots[k] = seg })
                       = Cardinality({ k \in 1..Len(queue) : queue[k] = seg })

\* A list given latest-first whose slots fall on both sides of the deadline.
C24_Witness ==
    /\ QueueReturned
    /\ call.arg.deadline # None
    /\ Len(call.arg.slots) = 2
    /\ call.arg.slots[1][1] > call.arg.deadline[1]
    /\ call.arg.slots[2][1] <= call.arg.deadline[1]
    /\ call.result[1] = << call.arg.slots[2], call.arg.slots[1] >>

(* C25: containment: every assignment [a, b) lies inside the queue slot
   [s, e) it was consumed from (s <= a and b <= e), hence inside one of the
   free slots of the generator, inside a 09:00-21:00 window, and not
   before now. *)
C25_Containment ==
    \A k \in 1..Len(scheduled) :
        LET a == scheduled[k].start
            b == scheduled[k].end
        IN  /\ placed_in[k].slot[1] <= a
            /\ b <= placed_in[k].slot[2]
            /\ \E f \in 1..Len(free_slots) :
                   free_slots[f][1] <= a /\ b <= free_slots[f][2]
            /\ InWorkingWindow(<<a, b>>)
            /\ a >= now

\* An assignment moved forward from a slot start at hh:40 and clamped to
\* the slot end: it touches the end and starts after the slot start.
C25_Witness ==
    \E k \in 1..Len(scheduled) :
        /\ placed_in[k].clamped
        /\ MinuteOf(placed_in[k].slot[1]) = 40
        /\ scheduled[k].start > placed_in[k].slot[1]
        /\ scheduled[k].end = placed_in[k].slot[2]

(* C26: whenever a slot passes the size check (length >= duration + 30min)
   the assigned start is less than 30 minutes after the slot start and the
   consumption succeeds: the later rejection branches (start at or past
   the slot end, non-positive clamped duration) are unreachable, so a
   candidate is only ever turned down by the size check or the overlap
   check. *)
C26_ConsumptionSucceeds ==
    ConsumeReturned =>
        LET slot == call.arg.slot
            p == call.result[1].potential
            c == call.result[1].consumed
        IN  IF SlotLength(slot) >= call.arg.duration + Minutes(30)
            THEN /\ p.reason = "ok"
                 /\ c.ok
                 /\ c.start - slot[1] < Minutes(30)
                 /\ p.start = c.start /\ p.end = c.end
                 /\ c.start < c.end
            ELSE p.reason = "size" /\ ~c.ok

\* A slot just long enough that starts at hh:31:01: the start rounds below
\* the slot start, is re-snapped to the next hour, the end is clamped, and
\* the consumption succeeds.
C26_Witness ==
    /\ ConsumeReturned
    /\ MinuteOf(call.arg.slot[1]) = 31
    /\ SecondOf(call.arg.slot[1]) = 1
    /\ SlotLength(call.arg.slot) = call.arg.duration + Minutes(30)
    /\ call.result[1].consumed.ok
    /\ call.result[1].consumed.clamped
    /\ call.result[1].consumed.start = ReplaceMinute(call.arg.slot[1], 0) + 3600

(* C27: in every reachable state of a run started from pairwise disjoint
   free slots the queue stays sorted by start ascending and its entries
   stay pairwise disjoint, and the number of queue entries never
   increases. *)
C27_QueueStaysOrdered ==
    /\ [](PairwiseDisjoint(free_slots)
             => SortedByStart(slot_queue) /\ PairwiseDisjoint(slot_queue))
    /\ [][pc = "loop" => Len(slot_queue') <= Len(slot_queue)]_vars

\* Two requests were placed: one queue entry was used up and removed, the
\* other was replaced by its tail, and entries remain on both sides.
C27_Witness ==
    /\ pc = "loop"
    /\ Len(scheduled) = 2
    /\ PairwiseDisjoint(free_slots)
    /\ Len(free_slots) = 3
    /\ Len(slot_queue) = 2
    /\ slot_queue[1] = free_slots[2]
    /\ slot_queue[2][1] > free_slots[3][1]

(* C28: if every two distinct free slots given to the scheduler are at
   least 30 minutes apart, the buffered-overlap check never turns a
   candidate down in any run; it can only do so when two free slots are
   less than 30 minutes apart. *)
C28_OverlapCheckRedundant ==
    GapsOfHalfHour(free_slots) => rejects.overlap = 0

\* Slots at least 30 minutes apart, two requests packed into the same slot
\* exactly 30 minutes apart, and no candidate turned down for overlap.
C28_Witness ==
    /\ pc = "done"
    /\ Len(free_slots) >= 2
    /\ GapsOfHalfHour(free_slots)
    /\ rejects.overlap = 0
    /\ \E i, j \in 1..Len(scheduled) :
           /\ placed_in[i].slot[2] = placed_in[j].slot[2]
           /\ scheduled[j].start = scheduled[i].end + Minutes(30)

(* C29: load balancing spreads work one item per day: with no busy
   intervals, no hints, no deadline and at most horizon_days - 1 requests,
   no two assignments of a run start on the same calendar day and no
   request is unscheduled. *)
C29_OneItemPerDay ==
    (/\ rows = << >>
     /\ due_deadline = None
     /\ \A i \in 1..Len(subtasks) : subtasks[i].planned_start = None
     /\ Len(subtasks) <= horizon_days - 1)
    => /\ unscheduled = << >>
       /\ pc = "done" => Len(scheduled) = Len(subtasks)
       /\ \A i, j \in 1..Len(scheduled) :
              i # j => DateOf(scheduled[i].start) # DateOf(scheduled[j].start)

\* horizon_days - 1 requests after today's window has closed: every later
\* day of the horizon holds exactly one of them.
C29_Witness ==
    /\ pc = "done"
    /\ rows = << >>
    /\ now > At(0, work_end, 0, 0)
    /\ Len(subtasks) = horizon_days - 1
    /\ Len(scheduled) = horizon_days - 1
    /\ \A d \in 1..(horizon_days - 1) :
           \E k \in 1..Len(scheduled) : DateOf(scheduled[k].start) = d

(* C30: prefix stability without a deadline: the outcome (placed interval
   or unscheduled) of the first k requests of a list is the outcome of
   running the scheduler on those k requests alone with the same free
   slots and the same now; later requests never change the placement of
   earlier ones. *)
C30_PrefixStable ==
    (pc = "done" /\ due_deadline = None) =>
        \A k \in 0..Len(subtasks) :
            LET alone == _schedule_ai_subtasks(SubSeq(subtasks, 1, k), free_slots,
                                               None, now)
                Placed(item) == item.sub <= k
                Left(u) == u <= k
            IN  /\ alone.scheduled = SelectSeq(scheduled, Placed)
                /\ alone.unscheduled = SelectSeq(unscheduled, Left)

\* Three requests without a deadline: the second is unscheduled, the first
\* and the third are placed.
C30_Witness ==
    /\ pc = "done"
    /\ due_deadline = None
    /\ Len(subtasks) = 3
    /\ unscheduled = << 2 >>
    /\ Len(scheduled) = 2
    /\ scheduled[2].sub = 3

====
